---- MODULE Spec2Model ----
(***************************************************************************)
(* Model of the offline-caching core of the CNUserGroup website:           *)
(*   - the service worker (src/unnamed/part_000): lifecycle, the four      *)
(*     fetch strategies, the CLEAN_CACHE trim;                             *)
(*   - the image preloader and the image-load-state registry               *)
(*     (src/src/utils/imageValidation.ts).                                 *)
(*   - the resource preloader, the memory cache and the network-aware      *)
(*     localStorage cache of the page (src/src/utils/caching.ts).          *)
(* URLs are numbered: URL i of the install manifest is STATIC_ASSETS[i].   *)
(* A response is a record [kind, status, body]; a handler's result is a    *)
(* response, or the value undefined, or a rejection.                       *)
(***************************************************************************)
EXTENDS Integers, Sequences, FiniteSets, TLC

\* ------------------------------------------------------------------ bounds
MaxHandlers == 1     \* fetch interceptions in one behaviour
MaxOver == 2         \* how far a preloaded cache may exceed the trim threshold
MaxBadFetches == 1   \* manifest URLs whose fetch fails during one install
MaxCallers == 3      \* calls of preload() in one behaviour
MaxSrc == 1          \* distinct image URLs given to the preloader
MaxImages == 3       \* distinct image URLs given to the load-state registry
MaxHrefs == 2        \* distinct same-host links the pointer can hover
MaxResourceOps == 3  \* calls into the resource preloader in one behaviour
MaxNow == 3          \* how far the clock advances, in units of one TTL step
MaxSmartSets == 1    \* calls of smartSet() in one behaviour
MaxPushes == 2       \* push events in one behaviour
MaxImageErrors == 4  \* imageError events in one behaviour

\* ------------------------------------------------------- program constants
STATIC_CACHE == "cnusergroup-static-v1.0.0"
DYNAMIC_CACHE == "cnusergroup-dynamic-v1.0.0"
IMAGE_CACHE == "cnusergroup-images-v1.0.0"
CACHE_NAME == "cnusergroup-v1.0.0"
OLD_STATIC_CACHE == "cnusergroup-static-v0.9.0"

ManifestSize == 10   \* number of entries of STATIC_ASSETS
ROOT_URL == 1        \* '/', the first entry of STATIC_ASSETS
OFFLINE_URL == 11    \* '/offline.html'
TRIM_THRESHOLD == 100
TRIM_KEEP == 50
MAX_RETRIES == 3

STATIC_ASSETS == [i \in 1..ManifestSize |-> i]

\* A URL that is in no preloaded cache.
FreshUrl == TRIM_THRESHOLD + MaxOver + 1

CurrentCaches == {STATIC_CACHE, DYNAMIC_CACHE, IMAGE_CACHE}
AllCacheNames == CurrentCaches \cup {CACHE_NAME, OLD_STATIC_CACHE}

\* --------------------------------------------------------------- responses
Response(status, body) == [kind |-> "response", status |-> status, body |-> body]
NoResponse == [kind |-> "none", status |-> 0, body |-> ""]
Undefined == [kind |-> "undefined", status |-> 0, body |-> ""]
Rejected == [kind |-> "rejected", status |-> 0, body |-> ""]

IsResponse(r) == r.kind = "response"
IsOk(r) == r.kind = "response" /\ r.status >= 200 /\ r.status <= 299

NetBodies == {"net1", "net2"}
\* What the network can answer: an ok response, a non-ok response, a failure.
NetOutcomes == {Response(200, b) : b \in NetBodies} \cup {Response(500, "error"), Rejected}

VARIABLES
    phase,        \* lifecycle state of this worker version
    cacheKeys,    \* caches.keys(): names of the existing caches, in creation order
    store,        \* store[name]: the entries [url, resp] of a cache, in insertion order
    handlers,     \* the fetch interceptions: position and locals of each
    puts,         \* cache.put() calls issued and not yet settled
    unhandled,    \* a promise rejected with no handler attached
    trim,         \* the running cleanOldCache(): position and locals
    before,       \* the cache storage when the last activate / trim started
    trimClean,    \* no entry was written by a put since the last trim started
    trimRuns,     \* trims completed one after the other with no put in between
    fetchLimit,   \* fetch interceptions allowed in this behaviour
    installBad,   \* manifest URLs whose fetch failed in the install
    pcache,       \* GlobalImagePreloader.cache
    ploading,     \* GlobalImagePreloader.loading
    callers,      \* calls of preload(): position, src, result
    cleared,      \* clearCache() was called
    loadingImages, loadedImages, failedImages,  \* ImageLoadingManager
    bypassed,     \* requests the fetch listener left to the browser
    preloadedResources,  \* ResourcePreloader.preloadedResources
    headLinks,    \* the link elements appended to document.head, in order
    currentPath,  \* window.location.pathname, as its segments
    requestedUrls,       \* the URLs preloadResource() was called with
    repeated,     \* preloadResource() was called with a URL it had seen
    resourceOps,  \* calls into the resource preloader so far
    now,          \* Date.now()
    memCache,     \* CacheManager.cache
    memGot,       \* the last CacheManager.get(): key, time, result, entry left
    memWritten,   \* per key: the last set(), and whether a get() missed or
                  \* clear() ran since
    localStorage, \* window.localStorage: storage key -> text
    isOnline,     \* NetworkAwareCache.isOnline
    smartGot,     \* the last smartGet(): key, time, result, storage before
    smartPut,     \* the last smartSet(): arguments, storage before and after
    smartSets,    \* calls of smartSet() so far
    storageFault, \* what window.localStorage does: works, rejects writes, denies access
    lsRaised,     \* a call into the persisted cache threw to its caller
    pushLog,      \* the push events handled: payload, notification shown, listener threw
    notifications,       \* the notifications shown and not closed
    openedWindows,       \* the URLs given to clients.openWindow()
    batch,        \* the call of preloadBatch(): position, sources, results map
    retryCount,   \* setupErrorRecovery: the counter of its closure
    timers,       \* setupErrorRecovery: the pending timeouts
    reassigned,   \* the re-assignments of element.src, in order
    imageErrors   \* imageError events dispatched so far

swVars == <<phase, cacheKeys, store, handlers, puts, unhandled, trim, before,
            trimClean, trimRuns, fetchLimit, installBad, bypassed>>
preVars == <<pcache, ploading, callers, cleared, batch>>
regVars == <<loadingImages, loadedImages, failedImages>>
resVars == <<preloadedResources, headLinks, currentPath, requestedUrls, repeated,
             resourceOps>>
memVars == <<now, memCache, memGot, memWritten>>
lsVars == <<localStorage, isOnline, smartGot, smartPut, smartSets, storageFault, lsRaised>>
utilVars == <<resVars, memVars, lsVars>>
pushVars == <<pushLog, notifications, openedWindows>>
retryVars == <<retryCount, timers, reassigned, imageErrors>>
vars == <<swVars, preVars, regVars, utilVars, pushVars, retryVars>>

\* ------------------------------------------------------------ cache storage
Entry(url, resp) == [url |-> url, resp |-> resp]

\* A cache holding the URLs 1..n, oldest first.
Filled(n) == [i \in 1..n |-> Entry(i, Response(200, "old"))]

Exists(name) == \E i \in 1..Len(cacheKeys) : cacheKeys[i] = name

\* cache.match(request): the response stored for the URL, if any.
Match(entries, url) ==
    IF \E i \in 1..Len(entries) : entries[i].url = url
    THEN entries[CHOOSE i \in 1..Len(entries) : entries[i].url = url].resp
    ELSE NoResponse

\* Entries without those whose URL is in urls (order kept).
Without(entries, urls) == SelectSeq(entries, LAMBDA e : e.url \notin urls)

\* cache.put(request, response): replaces the entry of the URL; the new entry is last.
Put(entries, url, resp) == Append(Without(entries, {url}), Entry(url, resp))

\* caches.match(url): the first hit over the caches in creation order.
RECURSIVE GlobalMatchFrom(_, _)
GlobalMatchFrom(i, url) ==
    IF i > Len(cacheKeys) THEN NoResponse
    ELSE IF Match(store[cacheKeys[i]], url) # NoResponse
         THEN Match(store[cacheKeys[i]], url)
         ELSE GlobalMatchFrom(i + 1, url)

GlobalMatch(url) == GlobalMatchFrom(1, url)

\* caches.open(name) creates the cache when it does not exist.
OpenedKeys(name) == IF Exists(name) THEN cacheKeys ELSE Append(cacheKeys, name)

\* ------------------------------------------------------------ fetch handling
Strategies == {"image", "static", "dynamic", "default"}
ReqUrls == {ROOT_URL, FreshUrl}

\* The named cache a strategy reads and writes.
StrategyCache(strategy) ==
    CASE strategy = "image" -> IMAGE_CACHE
      [] strategy = "static" -> STATIC_CACHE
      [] OTHER -> DYNAMIC_CACHE

\* The URL looked up by caches.match() in a strategy's navigation fallback.
FallbackUrl(strategy) == IF strategy = "static" THEN OFFLINE_URL ELSE ROOT_URL

\* The synthesized 404 of a strategy's catch block.
NotAvailable(strategy) ==
    CASE strategy = "image" -> Response(404, "Image not available")
      [] strategy = "static" -> Response(404, "Resource not available")
      [] strategy = "dynamic" -> Response(404, "Content not available")
      [] OTHER -> Response(404, "Request failed")

\* respondWith(handler(request)): the first await of each handler.
NewHandler(strategy, url, nav) ==
    [pc |-> IF strategy \in {"image", "static"} THEN "open" ELSE "fetch",
     strategy |-> strategy, url |-> url, nav |-> nav,
     cached |-> NoResponse,     \* cachedResponse
     net |-> NoResponse,        \* networkResponse, or Rejected when fetch() threw
     out |-> NoResponse,        \* what the handler's promise settled with
     putIssued |-> FALSE,       \* the handler called cache.put()
     inCache |-> FALSE,         \* at delivery, its cache held out for its URL
     fellBack |-> FALSE,        \* the handler returned its navigation fallback
     page |-> NoResponse,       \* what caches.match() found for the fallback URL
     req |-> 0,                 \* the request the fetch listener classified, if any
     dest |-> ""]               \* request.destination of that request

\* The handler returns r.
Delivered(hr, r) ==
    [hr EXCEPT !.pc = "done", !.out = r,
               !.inCache = (Match(store[StrategyCache(hr.strategy)], hr.url) = r)]

\* `return caches.match(url) || new Response('Offline', {status: 503})`:
\* caches.match() returns a promise, which is truthy, so the handler returns
\* what that promise resolves with: the stored response, or undefined.
MatchOrOffline(url) ==
    IF GlobalMatch(url) # NoResponse THEN GlobalMatch(url) ELSE Undefined

\* The catch block of handleImageRequest / handleStaticRequest / handleDefaultRequest,
\* and the end of the catch block of handleDynamicRequest.
Caught(hr) ==
    IF hr.strategy # "image" /\ hr.nav
    THEN [hr EXCEPT !.pc = "fallback"]
    ELSE Delivered(hr, NotAvailable(hr.strategy))

Running(h, pcs, strategies) ==
    /\ handlers[h].pc \in pcs
    /\ handlers[h].strategy \in strategies

HandlerFrame == UNCHANGED <<phase, trim, before, fetchLimit, installBad, preVars, regVars,
                            utilVars, pushVars, retryVars>>

\* fetch listener: a same-origin request is given to one of the four handlers.
DispatchOf(strategies) ==
    /\ phase = "activated"
    /\ Len(handlers) < fetchLimit
    /\ \E strategy \in strategies, url \in ReqUrls, nav \in BOOLEAN :
          handlers' = Append(handlers, NewHandler(strategy, url, nav))
    /\ UNCHANGED <<cacheKeys, store, puts, unhandled, trimClean, trimRuns, bypassed>>
    /\ HandlerFrame

Dispatch == DispatchOf(Strategies)

\* The interceptions that write the static cache.
DispatchStatic == DispatchOf({"static"})

\* handleImageRequest / handleStaticRequest: await caches.open(...)
CacheFirstOpen ==
    \E h \in 1..Len(handlers) :
      /\ Running(h, {"open"}, {"image", "static"})
      /\ \E ok \in BOOLEAN :
           IF ok
           THEN /\ cacheKeys' = OpenedKeys(StrategyCache(handlers[h].strategy))
                /\ handlers' = [handlers EXCEPT ![h].pc = "match"]
           ELSE /\ cacheKeys' = cacheKeys
                /\ handlers' = [handlers EXCEPT ![h] = Caught(@)]
      /\ UNCHANGED <<store, puts, unhandled, trimClean, trimRuns, bypassed>>
      /\ HandlerFrame

\* The handler with the cache hit ignored: the network is always asked.
AfterCacheFirstMatch_AlwaysFetch(hr, m) == [hr EXCEPT !.pc = "fetch"]

\* What the handler does once cache.match() has answered.
AfterCacheFirstMatch(hr, m) ==
    IF m # NoResponse
    THEN Delivered([hr EXCEPT !.cached = m], m)
    ELSE [hr EXCEPT !.pc = "fetch"]

\* handleImageRequest / handleStaticRequest: await cache.match(request)
CacheFirstMatch ==
    \E h \in 1..Len(handlers) :
      /\ Running(h, {"match"}, {"image", "static"})
      /\ handlers' = [handlers EXCEPT ![h] =
            AfterCacheFirstMatch(@, Match(store[StrategyCache(@.strategy)], @.url))]
      /\ UNCHANGED <<cacheKeys, store, puts, unhandled, trimClean, trimRuns, bypassed>>
      /\ HandlerFrame

PendingPut(cache, url, resp) == [cache |-> cache, url |-> url, resp |-> resp]

\* The put made whatever the status of the response.
PutsAfter_AnyStatus(hr, r) ==
    puts \cup {PendingPut(StrategyCache(hr.strategy), hr.url, r)}

\* The puts a handler leaves pending once the network has answered r:
\* `if (networkResponse.ok) cache.put(request, networkResponse.clone())`, not awaited.
PutsAfter(hr, r) ==
    IF IsOk(r) THEN puts \cup {PendingPut(StrategyCache(hr.strategy), hr.url, r)} ELSE puts

\* handleImageRequest / handleStaticRequest: await fetch(request) and what follows.
CacheFirstFetch ==
    \E h \in 1..Len(handlers) :
      /\ Running(h, {"fetch"}, {"image", "static"})
      /\ \E r \in NetOutcomes :
           IF r = Rejected
           THEN /\ handlers' = [handlers EXCEPT ![h] = Caught([@ EXCEPT !.net = r])]
                /\ puts' = puts
           ELSE /\ handlers' = [handlers EXCEPT ![h] =
                       Delivered([@ EXCEPT !.net = r, !.putIssued = IsOk(r)], r)]
                /\ puts' = PutsAfter(handlers[h], r)
      /\ UNCHANGED <<cacheKeys, store, unhandled, trimClean, trimRuns, bypassed>>
      /\ HandlerFrame

\* handleDynamicRequest: await fetch(request)
DynamicFetch ==
    \E h \in 1..Len(handlers) :
      /\ Running(h, {"fetch"}, {"dynamic"})
      /\ \E r \in NetOutcomes :
           handlers' = [handlers EXCEPT ![h] =
              IF r = Rejected THEN [@ EXCEPT !.net = r, !.pc = "catchOpen"]
              ELSE IF IsOk(r) THEN [@ EXCEPT !.net = r, !.pc = "tryOpen"]
              ELSE Delivered([@ EXCEPT !.net = r], r)]
      /\ UNCHANGED <<cacheKeys, store, puts, unhandled, trimClean, trimRuns, bypassed>>
      /\ HandlerFrame

\* handleDynamicRequest, ok response: await caches.open(DYNAMIC_CACHE), cache.put(...)
\* not awaited, return networkResponse.
DynamicTryOpen ==
    \E h \in 1..Len(handlers) :
      /\ Running(h, {"tryOpen"}, {"dynamic"})
      /\ \E ok \in BOOLEAN :
           IF ok
           THEN /\ cacheKeys' = OpenedKeys(DYNAMIC_CACHE)
                /\ handlers' = [handlers EXCEPT ![h] =
                       Delivered([@ EXCEPT !.putIssued = TRUE], @.net)]
                /\ puts' = PutsAfter(handlers[h], handlers[h].net)
           ELSE /\ cacheKeys' = cacheKeys
                /\ handlers' = [handlers EXCEPT ![h].pc = "catchOpen"]
                /\ puts' = puts
      /\ UNCHANGED <<store, unhandled, trimClean, trimRuns, bypassed>>
      /\ HandlerFrame

\* handleDynamicRequest, catch block: await caches.open(DYNAMIC_CACHE); an error
\* thrown here is outside the try block and rejects the handler's promise.
DynamicCatchOpen ==
    \E h \in 1..Len(handlers) :
      /\ Running(h, {"catchOpen"}, {"dynamic"})
      /\ \E ok \in BOOLEAN :
           IF ok
           THEN /\ cacheKeys' = OpenedKeys(DYNAMIC_CACHE)
                /\ handlers' = [handlers EXCEPT ![h].pc = "catchMatch"]
           ELSE /\ cacheKeys' = cacheKeys
                /\ handlers' = [handlers EXCEPT ![h] = Delivered(@, Rejected)]
      /\ UNCHANGED <<store, puts, unhandled, trimClean, trimRuns, bypassed>>
      /\ HandlerFrame

\* handleDynamicRequest, catch block: await cache.match(request) and what follows.
DynamicCatchMatch ==
    \E h \in 1..Len(handlers) :
      /\ Running(h, {"catchMatch"}, {"dynamic"})
      /\ LET m == Match(store[DYNAMIC_CACHE], handlers[h].url) IN
           handlers' = [handlers EXCEPT ![h] =
              IF m # NoResponse THEN Delivered([@ EXCEPT !.cached = m], m)
              ELSE Caught(@)]
      /\ UNCHANGED <<cacheKeys, store, puts, unhandled, trimClean, trimRuns, bypassed>>
      /\ HandlerFrame

\* handleDefaultRequest: return await fetch(request), and the catch block.
DefaultFetch ==
    \E h \in 1..Len(handlers) :
      /\ Running(h, {"fetch"}, {"default"})
      /\ \E r \in NetOutcomes :
           handlers' = [handlers EXCEPT ![h] =
              IF r = Rejected THEN Caught([@ EXCEPT !.net = r])
              ELSE Delivered([@ EXCEPT !.net = r], r)]
      /\ UNCHANGED <<cacheKeys, store, puts, unhandled, trimClean, trimRuns, bypassed>>
      /\ HandlerFrame

\* The navigation fallback of a catch block: the promise of caches.match() settles.
Fallback ==
    \E h \in 1..Len(handlers) :
      /\ Running(h, {"fallback"}, Strategies)
      /\ handlers' = [handlers EXCEPT ![h] =
            Delivered([@ EXCEPT !.fellBack = TRUE,
                                !.page = GlobalMatch(FallbackUrl(handlers[h].strategy))],
                      MatchOrOffline(FallbackUrl(handlers[h].strategy)))]
      /\ UNCHANGED <<cacheKeys, store, puts, unhandled, trimClean, trimRuns, bypassed>>
      /\ HandlerFrame

\* A pending cache.put() writes its entry.
PutCommit ==
    \E p \in puts :
      /\ puts' = puts \ {p}
      /\ store' = [store EXCEPT ![p.cache] = Put(@, p.url, p.resp)]
      /\ trimClean' = FALSE
      /\ trimRuns' = 0
      /\ UNCHANGED <<cacheKeys, handlers, unhandled, bypassed>>
      /\ HandlerFrame

\* A pending cache.put() rejects (quota exceeded): nothing awaits or catches it.
PutFail ==
    \E p \in puts :
      /\ puts' = puts \ {p}
      /\ unhandled' = TRUE
      /\ UNCHANGED <<cacheKeys, store, handlers, trimClean, trimRuns, bypassed>>
      /\ HandlerFrame

NextFetch ==
    \/ Dispatch
    \/ CacheFirstOpen
    \/ CacheFirstMatch
    \/ CacheFirstFetch
    \/ DynamicFetch
    \/ DynamicTryOpen
    \/ DynamicCatchOpen
    \/ DynamicCatchMatch
    \/ DefaultFetch
    \/ Fallback
    \/ PutCommit
    \/ PutFail

\* ------------------------------------------------------- request routing
\* A URL is the sequence of its parts, the separators '/' among them and a file
\* extension as one part: 'https://host/_astro/main.js' is
\* <<"https:", "/", "/", "host", "/", "_astro", "/", "main", ".js">>.
LocationOrigin == <<"https:", "/", "/", "host">>
OtherOrigin == <<"https:", "/", "/", "other">>

\* The entries of STATIC_ASSETS, in order.
STATIC_ASSET_PATHS ==
    << <<"/">>,
       <<"/", "en">>,
       <<"/", "cities">>,
       <<"/", "en", "/", "cities">>,
       <<"/", "manifest", ".json">>,
       <<"/", "favicon", ".svg">>,
       <<"/", "images", "/", "ui", "/", "hero-background", ".png">>,
       <<"/", "images", "/", "ui", "/", "title-left", ".png">>,
       <<"/", "images", "/", "ui", "/", "title-right", ".png">>,
       <<"/", "images", "/", "aws-logo", ".webp">> >>

\* The pathnames of the requests a page of the site makes.
RequestPaths ==
    << <<"/">>,
       <<"/", "cities", "/", "beijing">>,
       <<"/", "en", "/", "cities", "/", "beijing">>,
       <<"/", "api", "/", "events">>,
       <<"/", "images", "/", "cities", "/", "beijing", ".webp">>,
       <<"/", "_astro", "/", "main", ".js">>,
       <<"/", "news">>,
       <<"/", "cities">> >>

Destinations == {"image", "document", ""}

\* request.url, request.destination, request.mode === 'navigate'; path is the index
\* of the pathname in RequestPaths. Only a document request can be a navigation.
Requests ==
    {r \in [origin : {LocationOrigin, OtherOrigin}, path : 1..Len(RequestPaths),
            dest : Destinations, nav : BOOLEAN] : r.nav => r.dest = "document"}

Href(r) == r.origin \o RequestPaths[r.path]

\* new URL(request.url).origin, new URL(request.url).pathname
OriginOf(href) == SubSeq(href, 1, 4)
PathnameOf(href) == SubSeq(href, 5, Len(href))

\* The number under which the caches hold the request.
UrlKey(r) == IF r.path = 1 THEN ROOT_URL ELSE FreshUrl + r.path

\* text.startsWith(pre), and a pattern anchored with ^: pre is a leading part of text.
StartsWith(text, pre) ==
    /\ Len(text) >= Len(pre)
    /\ SubSeq(text, 1, Len(pre)) = pre

\* url.endsWith(part)
EndsWith(url, part) ==
    /\ Len(url) >= Len(part)
    /\ SubSeq(url, Len(url) - Len(part) + 1, Len(url)) = part

\* url.includes(part)
Includes(url, part) ==
    \E i \in 1..(Len(url) - Len(part) + 1) : SubSeq(url, i, i + Len(part) - 1) = part

\* isStaticAsset(url)
IsStaticAsset(url) ==
    \/ \E i \in 1..Len(STATIC_ASSET_PATHS) : EndsWith(url, STATIC_ASSET_PATHS[i])
    \/ Includes(url, <<"/", "assets", "/">>)
    \/ Includes(url, <<"/", "_astro", "/">>)
    \/ EndsWith(url, <<".css">>)
    \/ EndsWith(url, <<".js">>)
    \/ EndsWith(url, <<".woff2">>)
    \/ EndsWith(url, <<".woff">>)

\* pattern.test(text) for the four DYNAMIC_PATTERNS, each anchored at both ends:
\* /^\/cities\/[^\/]+$/, /^\/en\/cities\/[^\/]+$/,
\* /^\/images\/cities\/.+\.(webp|jpg|png)$/, /^\/api\/.+$/.
OneSegmentAfter(text, lead) ==
    /\ StartsWith(text, lead)
    /\ Len(text) > Len(lead)
    /\ \A i \in (Len(lead) + 1)..Len(text) : text[i] # "/"

MatchesDynamicPattern(text) ==
    \/ OneSegmentAfter(text, <<"/", "cities", "/">>)
    \/ OneSegmentAfter(text, <<"/", "en", "/", "cities", "/">>)
    \/ /\ StartsWith(text, <<"/", "images", "/", "cities", "/">>)
       /\ Len(text) > 6
       /\ text[Len(text)] \in {".webp", ".jpg", ".png"}
    \/ /\ StartsWith(text, <<"/", "api", "/">>)
       /\ Len(text) > 3

\* isDynamicContent(url)
IsDynamicContent(url) == MatchesDynamicPattern(url)

\* The branch of the fetch listener a same-origin request takes.
Classify(r) ==
    IF r.dest = "image" THEN "image"
    ELSE IF IsStaticAsset(Href(r)) THEN "static"
    ELSE IF IsDynamicContent(Href(r)) THEN "dynamic"
    ELSE "default"

\* fetch listener: a request of another origin is left alone, a request of the
\* worker's origin is answered by the handler of its branch.
Listen ==
    /\ phase = "activated"
    /\ \E r \in Requests :
         IF OriginOf(Href(r)) # LocationOrigin
         THEN /\ Cardinality(bypassed) < fetchLimit
              /\ bypassed' = bypassed \cup {r}
              /\ handlers' = handlers
         ELSE /\ Len(handlers) < fetchLimit
              /\ bypassed' = bypassed
              /\ handlers' = Append(handlers,
                    [NewHandler(Classify(r), UrlKey(r), r.nav)
                       EXCEPT !.req = r.path, !.dest = r.dest])
    /\ UNCHANGED <<cacheKeys, store, puts, unhandled, trimClean, trimRuns>>
    /\ HandlerFrame

\* The listener, and next to it the four handlers called directly.
NextRoute == Listen \/ NextFetch

\* ---------------------------------------------------------------- lifecycle
Range(seq) == {seq[i] : i \in 1..Len(seq)}

\* The sets of manifest URLs whose fetch goes wrong in one install.
BadSets == {b \in SUBSET (1..ManifestSize) : Cardinality(b) <= MaxBadFetches}

\* What the network answers for a manifest URL during the install.
InstallOutcome(url, bad, kind) ==
    IF url \in bad
    THEN (IF kind = "status" THEN Response(404, "error") ELSE Rejected)
    ELSE Response(200, "install")

RECURSIVE PutAll(_, _, _, _)
PutAll(entries, urls, bad, kind) ==
    IF urls = <<>> THEN entries
    ELSE PutAll(Put(entries, Head(urls), InstallOutcome(Head(urls), bad, kind)),
                Tail(urls), bad, kind)

\* One cache.add() per URL, each on its own: the ok responses are put, the others skipped.
RECURSIVE AddAll_EachOnItsOwn(_, _, _, _)
AddAll_EachOnItsOwn(entries, urls, bad, kind) ==
    IF urls = <<>> THEN entries
    ELSE AddAll_EachOnItsOwn(
           IF IsOk(InstallOutcome(Head(urls), bad, kind))
           THEN Put(entries, Head(urls), InstallOutcome(Head(urls), bad, kind))
           ELSE entries,
           Tail(urls), bad, kind)

\* cache.addAll(urls) fulfils when every fetch answers with an ok response.
AddAllFulfils(urls, bad, kind) ==
    \A i \in 1..Len(urls) : IsOk(InstallOutcome(urls[i], bad, kind))

\* cache.addAll(urls): every URL is fetched; if one fetch fails or is not ok the
\* call rejects and nothing is written, otherwise every response is put.
AddAll(entries, urls, bad, kind) ==
    IF AddAllFulfils(urls, bad, kind)
    THEN PutAll(entries, urls, bad, kind)
    ELSE entries

\* The install listener with waitUntil() left out: the install does not wait for
\* the manifest.
InstalledPhase_NoWaitUntil(fulfils) == "installed"

\* event.waitUntil(promise) of the install listener: the version is installed when
\* the promise fulfils and redundant when it rejects.
InstalledPhase(fulfils) == IF fulfils THEN "installed" ELSE "redundant"

LifeFrame == UNCHANGED <<handlers, puts, unhandled, trim, trimClean, trimRuns,
                         fetchLimit, bypassed, preVars, regVars, utilVars, pushVars,
                         retryVars>>

\* install listener: waitUntil(Promise.all([open(STATIC_CACHE).then(addAll), skipWaiting()])).
\* The worker is installed when the promise fulfils and redundant when it rejects.
Install ==
    /\ phase = "parsed"
    /\ \E bad \in BadSets, kind \in {"status", "failure"} :
         /\ installBad' = bad
         /\ cacheKeys' = OpenedKeys(STATIC_CACHE)
         /\ store' = [store EXCEPT ![STATIC_CACHE] = AddAll(@, STATIC_ASSETS, bad, kind)]
         /\ phase' = InstalledPhase(AddAllFulfils(STATIC_ASSETS, bad, kind))
    /\ UNCHANGED before
    /\ LifeFrame

\* The keep-list with the image cache forgotten.
KeptByActivate_NoImage(name) ==
    name = STATIC_CACHE \/ name = DYNAMIC_CACHE

\* The cache names the activate listener keeps.
KeptByActivate(name) ==
    name = STATIC_CACHE \/ name = DYNAMIC_CACHE \/ name = IMAGE_CACHE

\* activate listener: caches.keys(), then caches.delete() of every name that is
\* not one of the three current names; clients.claim().
Activate ==
    /\ phase = "installed"
    /\ before' = [keys |-> cacheKeys, store |-> store]
    /\ cacheKeys' = SelectSeq(cacheKeys, KeptByActivate)
    /\ store' = [n \in AllCacheNames |-> IF KeptByActivate(n) THEN store[n] ELSE <<>>]
    /\ phase' = "activated"
    /\ UNCHANGED installBad
    /\ LifeFrame

NextLife == Install \/ Activate \/ NextFetch

\* --------------------------------------------------------------------- trim
\* requests.slice(0, 50): the oldest 50 only.
OldRequests_Oldest50(entries) ==
    IF Len(entries) > TRIM_THRESHOLD
    THEN {entries[i].url : i \in 1..TRIM_KEEP}
    ELSE {}

\* requests.slice(0, requests.length - 50): the URLs cleanOldCache deletes.
OldRequests(entries) ==
    IF Len(entries) > TRIM_THRESHOLD
    THEN {entries[i].url : i \in 1..(Len(entries) - TRIM_KEEP)}
    ELSE {}

\* The oldest of the URLs to delete: URLs are numbered in the order of their first
\* insertion, and a delete that fails is taken to be the one of requests[0].
FirstOld(old) == CHOOSE u \in old : \A v \in old : u <= v

TrimFrame == UNCHANGED <<phase, handlers, puts, unhandled, fetchLimit, installBad,
                         bypassed, preVars, regVars, utilVars, pushVars, retryVars>>

\* message listener, CLEAN_CACHE: cleanOldCache() starts, await caches.keys().
TrimStart ==
    /\ phase = "activated"
    /\ trim.pc \in {"idle", "done", "failed"}
    /\ trimRuns < 2
    /\ trim' = [pc |-> "open", names |-> cacheKeys, i |-> 1, old |-> {}]
    /\ before' = [keys |-> cacheKeys, store |-> store]
    /\ trimClean' = TRUE
    /\ UNCHANGED <<cacheKeys, store, trimRuns>>
    /\ TrimFrame

\* cleanOldCache: the loop test, then await caches.open(cacheName); after the last
\* name the routine logs success. An error is caught by the one try block around
\* the loop, which ends the routine.
TrimOpen ==
    /\ trim.pc = "open"
    /\ IF trim.i > Len(trim.names)
       THEN /\ trim' = [trim EXCEPT !.pc = "done"]
            /\ trimRuns' = IF trimClean THEN trimRuns + 1 ELSE 0
            /\ cacheKeys' = cacheKeys
       ELSE \E ok \in BOOLEAN :
            /\ trim' = [trim EXCEPT !.pc = IF ok THEN "keys" ELSE "failed"]
            /\ cacheKeys' = IF ok THEN OpenedKeys(trim.names[trim.i]) ELSE cacheKeys
            /\ trimRuns' = IF ok THEN trimRuns ELSE 0
    /\ UNCHANGED <<store, before, trimClean>>
    /\ TrimFrame

\* cleanOldCache: await cache.keys(), the length test and the slice.
TrimKeys ==
    /\ trim.pc = "keys"
    /\ LET old == OldRequests(store[trim.names[trim.i]]) IN
         trim' = IF old = {}
                 THEN [trim EXCEPT !.pc = "open", !.i = @ + 1]
                 ELSE [trim EXCEPT !.pc = "delete", !.old = old]
    /\ UNCHANGED <<cacheKeys, store, before, trimClean, trimRuns>>
    /\ TrimFrame

\* cleanOldCache: await Promise.all(oldRequests.map(request => cache.delete(request))).
\* When one delete rejects the others still run, and the error ends the routine.
TrimDelete ==
    /\ trim.pc = "delete"
    /\ \E failing \in {{}, {FirstOld(trim.old)}} :
         /\ store' = [store EXCEPT ![trim.names[trim.i]] = Without(@, trim.old \ failing)]
         /\ trim' = IF failing = {}
                    THEN [trim EXCEPT !.pc = "open", !.i = @ + 1, !.old = {}]
                    ELSE [trim EXCEPT !.pc = "failed", !.old = {}]
         /\ trimRuns' = IF failing = {} THEN trimRuns ELSE 0
    /\ UNCHANGED <<cacheKeys, before, trimClean>>
    /\ TrimFrame

\* The trim, and next to it the interceptions of the static strategy.
NextTrim ==
    \/ TrimStart
    \/ TrimOpen
    \/ TrimKeys
    \/ TrimDelete
    \/ DispatchStatic
    \/ CacheFirstOpen
    \/ CacheFirstMatch
    \/ CacheFirstFetch
    \/ Fallback
    \/ PutCommit
    \/ PutFail

\* -------------------------------------------------------------- push messages
PushTitles == {"t1", "t2"}
\* data.url: a path, or "" when the payload has none.
PushUrls == {"", "/cities"}

\* event.data: null, a text that is JSON, a text JSON.parse rejects.
NoData == [kind |-> "none", title |-> "", url |-> ""]
JsonData(title, url) == [kind |-> "json", title |-> title, url |-> url]
Unparseable == [kind |-> "text", title |-> "", url |-> ""]
PushPayloads == {NoData, Unparseable} \cup {JsonData(t, u) : t \in PushTitles, u \in PushUrls}

\* event.data.json() throws a SyntaxError on a text that is not JSON; the listener
\* has no try block around it.
JsonThrows(data) == data.kind = "text"

\* The statement showNotification(data.title, options) is reached.
ShowsNotification(data) == data.kind # "none" /\ ~JsonThrows(data)

PushFrame == UNCHANGED <<swVars, preVars, regVars, utilVars, retryVars>>

\* push listener
Push ==
    /\ phase = "activated"
    /\ Len(pushLog) < MaxPushes
    /\ \E data \in PushPayloads :
         /\ pushLog' = Append(pushLog, [data |-> data,
                                        shown |-> ShowsNotification(data),
                                        threw |-> data.kind # "none" /\ JsonThrows(data)])
         /\ notifications' = IF ShowsNotification(data)
                             THEN Append(notifications,
                                         [title |-> data.title, data |-> data.url])
                             ELSE notifications
    /\ UNCHANGED openedWindows
    /\ PushFrame

\* The sequence without its i-th element.
WithoutIndex(seq, i) == SubSeq(seq, 1, i - 1) \o SubSeq(seq, i + 1, Len(seq))

\* event.notification.data || '/'
WindowUrl(data) == IF data = "" THEN "/" ELSE data

\* notificationclick listener: the notification is closed, and the action 'open'
\* opens its URL.
NotificationClick ==
    \E i \in 1..Len(notifications), action \in {"open", "close", ""} :
      /\ notifications' = WithoutIndex(notifications, i)
      /\ openedWindows' = IF action = "open"
                          THEN openedWindows \cup {WindowUrl(notifications[i].data)}
                          ELSE openedWindows
      /\ UNCHANGED pushLog
      /\ PushFrame

NextPush == Push \/ NotificationClick

\* ------------------------------------------------------------ image preloader
Srcs == 1..MaxSrc

\* this.cache.get(src) || false
CacheGetOrFalse(src) == pcache[src] = "true"

\* The caller whose probe of src is in flight (0 when there is none).
Issuer(src) ==
    IF \E c \in 1..Len(callers) : callers[c].pc = "probing" /\ callers[c].src = src
    THEN CHOOSE c \in 1..Len(callers) : callers[c].pc = "probing" /\ callers[c].src = src
    ELSE 0

\* preload() with the test of this.loading left out.
IsLoading_Never(src) == FALSE

\* this.loading.has(src)
IsLoading(src) == src \in ploading

\* preload(src) up to its first await: the cached result, or a poll on the probe in
\* flight, or a probe of its own.
PreloadCall(src) ==
    IF pcache[src] # "absent"
    THEN [pc |-> "done", src |-> src, result |-> CacheGetOrFalse(src),
          issued |-> FALSE, onto |-> 0, promise |-> "none", events |-> <<>>]
    ELSE IF IsLoading(src)
    THEN [pc |-> "polling", src |-> src, result |-> FALSE,
          issued |-> FALSE, onto |-> Issuer(src), promise |-> "none", events |-> <<>>]
    ELSE [pc |-> "probing", src |-> src, result |-> FALSE,
          issued |-> TRUE, onto |-> 0, promise |-> "pending", events |-> <<>>]

PageFrame == UNCHANGED <<swVars, regVars, utilVars, pushVars, retryVars>>

\* preload() whose finally block is left out.
LoadingAfter_NoFinally(loading, src) == loading

\* finally { this.loading.delete(src) }
LoadingAfter(loading, src) == loading \ {src}

\* The text of a boolean, as the results map is printed.
BoolText(b) == IF b THEN "true" ELSE "false"

NoBatch == [pc |-> "none", sources |-> <<>>, first |-> 0,
            results |-> [s \in Srcs |-> "absent"]]

\* The sources preloadBatch() is called with.
BatchInputs == {<<>>} \cup {<<s>> : s \in Srcs} \cup {<<s, t>> : s, t \in Srcs}

\* The calls of preload() that sources.map() made for the batch b.
Members(b) == (b.first + 1)..(b.first + Len(b.sources))

\* sources.map(async (src) => ...) calls preload() for one source after the other
\* with nothing in between: the i-th call finds in this.loading what the calls
\* before it added.
BatchCall(sources, i) ==
    LET src == sources[i]
        earlier == {j \in 1..(i - 1) : sources[j] = src}
    IN IF pcache[src] # "absent" \/ (earlier = {} /\ ~IsLoading(src))
       THEN PreloadCall(src)
       ELSE [pc |-> "polling", src |-> src, result |-> FALSE, issued |-> FALSE,
             onto |-> IF IsLoading(src) THEN Issuer(src)
                      ELSE Len(callers) + (CHOOSE j \in earlier : \A k \in earlier : j <= k),
             promise |-> "none", events |-> <<>>]

\* The batch once all of its calls have resolved: Promise.allSettled(promises)
\* resolves and preloadBatch() returns the map.
BatchSettled(b, cs) ==
    IF b.pc = "waiting" /\ \A m \in Members(b) : cs[m].pc = "done"
    THEN [b EXCEPT !.pc = "done"]
    ELSE b

\* The rest of the arrow function when the call c resolves: results.set(src, result).
BatchRecord(b, cs, c) ==
    IF b.pc = "waiting" /\ c \in Members(b) /\ cs[c].pc = "done"
    THEN BatchSettled([b EXCEPT !.results[cs[c].src] = BoolText(cs[c].result)], cs)
    ELSE b

\* GlobalImagePreloader.preloadBatch(sources) is called.
PreloadBatch ==
    /\ batch.pc = "none"
    /\ \E sources \in BatchInputs :
         /\ Len(callers) + Len(sources) <= MaxCallers
         /\ LET cs == callers \o [i \in 1..Len(sources) |-> BatchCall(sources, i)]
                hits == {sources[i] : i \in {j \in 1..Len(sources) :
                                                pcache[sources[j]] # "absent"}}
            IN /\ callers' = cs
               /\ ploading' = ploading \cup
                                 {sources[i] : i \in {j \in 1..Len(sources) :
                                                          pcache[sources[j]] = "absent"}}
               /\ batch' = BatchSettled(
                              [pc |-> "waiting", sources |-> sources,
                               first |-> Len(callers),
                               results |-> [s \in Srcs |->
                                   IF s \in hits THEN BoolText(CacheGetOrFalse(s))
                                   ELSE "absent"]], cs)
    /\ UNCHANGED <<pcache, cleared>>
    /\ PageFrame

\* GlobalImagePreloader.preload(src) is called.
Preload ==
    /\ Len(callers) < MaxCallers
    /\ \E src \in Srcs :
         /\ callers' = Append(callers, PreloadCall(src))
         /\ ploading' = IF PreloadCall(src).pc = "probing"
                        THEN ploading \cup {src} ELSE ploading
    /\ UNCHANGED <<pcache, cleared, batch>>
    /\ PageFrame

ProbeEvents == {"load", "error", "timeout"}

\* The probe with a timer that resolves true.
SettleValue_TimerLoads(event) == IF event = "error" THEN "false" ELSE "true"

\* What a handler of validateImage passes to resolve(): onload true, onerror and
\* the 5 s timer false.
SettleValue(event) == IF event = "load" THEN "true" ELSE "false"

\* resolve(value) on a promise: only the first call settles it.
Resolve(promise, value) == IF promise = "pending" THEN value ELSE promise

\* The events a probe can still see: the timer fires once, and the image loads or
\* fails once.
CanFire(events, event) ==
    /\ \A i \in 1..Len(events) : events[i] # event
    /\ event \in {"load", "error"} =>
          \A i \in 1..Len(events) : events[i] = "timeout"

\* The first event of a probe: validateImage(src) resolves and preload() goes on:
\* cache.set(src, result), return result, finally loading.delete(src).
ProbeSettle ==
    \E c \in 1..Len(callers), event \in ProbeEvents :
      /\ callers[c].pc = "probing"
      /\ LET settled == Resolve(callers[c].promise, SettleValue(event))
             cs == [callers EXCEPT ![c].pc = "done",
                                   ![c].promise = settled,
                                   ![c].events = Append(@, event),
                                   ![c].result = (settled = "true")]
         IN /\ callers' = cs
            /\ pcache' = [pcache EXCEPT ![callers[c].src] = settled]
            /\ batch' = BatchRecord(batch, cs, c)
      /\ ploading' = LoadingAfter(ploading, callers[c].src)
      /\ UNCHANGED cleared
      /\ PageFrame

\* A later event of a probe: its handler calls resolve() on the settled promise.
ProbeLate ==
    \E c \in 1..Len(callers), event \in ProbeEvents :
      /\ callers[c].issued
      /\ callers[c].pc = "done"
      /\ CanFire(callers[c].events, event)
      /\ callers' = [callers EXCEPT
                        ![c].promise = Resolve(@, SettleValue(event)),
                        ![c].events = Append(@, event)]
      /\ UNCHANGED <<pcache, ploading, cleared, batch>>
      /\ PageFrame

\* The 100 ms interval of a waiting caller fires.
PollTick ==
    \E c \in 1..Len(callers) :
      /\ callers[c].pc = "polling"
      /\ LET cs == IF ~IsLoading(callers[c].src)
                   THEN [callers EXCEPT ![c].pc = "done",
                                        ![c].result = CacheGetOrFalse(callers[c].src)]
                   ELSE callers
         IN /\ callers' = cs
            /\ batch' = BatchRecord(batch, cs, c)
      /\ UNCHANGED <<pcache, ploading, cleared>>
      /\ PageFrame

\* GlobalImagePreloader.clearCache()
ClearCache ==
    /\ pcache' = [s \in Srcs |-> "absent"]
    /\ cleared' = TRUE
    /\ UNCHANGED <<ploading, callers, batch>>
    /\ PageFrame

NextPreload == Preload \/ ProbeSettle \/ ProbeLate \/ PollTick \/ ClearCache

\* The preloader with a batch call next to the single calls. The late events of a
\* settled probe change nothing a caller waits for and are left out.
NextBatch == PreloadBatch \/ Preload \/ ProbeSettle \/ PollTick \/ ClearCache

\* ------------------------------------------------- image load state registry
Images == 1..MaxImages

RegFrame == UNCHANGED <<swVars, preVars, utilVars, pushVars, retryVars>>

\* ImageLoadingManager.startLoading(src)
StartLoading ==
    \E src \in Images :
      /\ loadingImages' = loadingImages \cup {src}
      /\ UNCHANGED <<loadedImages, failedImages>>
      /\ RegFrame

\* ImageLoadingManager.markLoaded(src)
MarkLoaded ==
    \E src \in Images :
      /\ loadingImages' = loadingImages \ {src}
      /\ loadedImages' = loadedImages \cup {src}
      /\ UNCHANGED failedImages
      /\ RegFrame

\* ImageLoadingManager.markFailed(src)
MarkFailed ==
    \E src \in Images :
      /\ loadingImages' = loadingImages \ {src}
      /\ failedImages' = failedImages \cup {src}
      /\ UNCHANGED loadedImages
      /\ RegFrame

NextRegistry == StartLoading \/ MarkLoaded \/ MarkFailed

\* ------------------------------------------------------- image error recovery
Elements == {"img1", "img2"}

\* 1000 * Math.pow(2, retryCount), in seconds
RetryDelay(count) == 2 ^ count

\* retryCount < maxRetries, read when the event is handled
MayRetry(count) == count < MAX_RETRIES

RetryFrame == UNCHANGED <<swVars, preVars, regVars, utilVars, pushVars>>

\* The imageError listener of setupErrorRecovery(): a timeout is set with the delay
\* the counter gives at this moment; the counter itself is left alone.
ImageError ==
    /\ imageErrors < MaxImageErrors
    /\ imageErrors' = imageErrors + 1
    /\ \E element \in Elements :
         timers' = IF MayRetry(retryCount)
                   THEN Append(timers, [element |-> element,
                                        delay |-> RetryDelay(retryCount)])
                   ELSE timers
    /\ UNCHANGED <<retryCount, reassigned>>
    /\ RetryFrame

\* A timeout fires: element.src = originalSrc; retryCount++. The delays never
\* decrease from one timeout to the next one set, so the timeouts fire in the
\* order they were set.
RetryTimer ==
    /\ timers # <<>>
    /\ reassigned' = Append(reassigned, Head(timers))
    /\ retryCount' = retryCount + 1
    /\ timers' = Tail(timers)
    /\ UNCHANGED imageErrors
    /\ RetryFrame

NextRetry == ImageError \/ RetryTimer

\* -------------------------------------------------------- resource preloader
ResourceTypes == {"image", "document", "script", "style"}

CriticalResources ==
    <<"/images/hero-bg.webp", "/images/aws-logo.webp", "/cities", "/en/cities">>

PopularCityImages ==
    <<"/images/cities/beijing.webp", "/images/cities/shanghai.webp",
      "/images/cities/shenzhen.webp", "/images/cities/guangzhou.webp">>

\* preloadNextPage on the home page.
NextPageOfHome == <<"/cities", "/en/cities">>

\* preloadNextPage on a city list: both detail pages of every popular city.
NextPageOfList ==
    <<"/cities/beijing", "/en/cities/beijing", "/cities/shanghai",
      "/en/cities/shanghai", "/cities/shenzhen", "/en/cities/shenzhen">>

\* The pages a visitor can be on: /, /en/cities, /cities/beijing.
Pathnames == {<<>>, <<"en", "cities">>, <<"cities", "beijing">>}

\* currentPath.includes('/cities') && !currentPath.includes('/cities/')
IsCityList(path) ==
    /\ \E i \in 1..Len(path) : path[i] = "cities"
    /\ ~\E i \in 1..(Len(path) - 1) : path[i] = "cities"

\* The anchors of the page: link.href is the absolute URL, link.hostname its host.
Anchors ==
    <<[hostname |-> "host", href |-> "https://host/cities"],
      [hostname |-> "host", href |-> "https://host/cities/beijing"],
      [hostname |-> "host", href |-> "https://host/about"],
      [hostname |-> "host", href |-> "https://host/en"],
      [hostname |-> "other", href |-> "https://other/cities"]>>

\* The anchors under the pointer: some of the page's own host, and the foreign one.
Hoverable == {Anchors[i] : i \in (1..MaxHrefs) \cup {Len(Anchors)}}

\* The city cards of the page: the href of the card's anchor, the data-src of its image.
CityCards ==
    <<[href |-> "https://host/cities/beijing", dataSrc |-> "/images/cities/beijing.webp"],
      [href |-> "https://host/cities/shanghai", dataSrc |-> "/images/cities/shanghai.webp"]>>

\* The link element of one prefetch directive.
PrefetchLink(url, type) ==
    [rel |-> "prefetch", href |-> url, as |-> IF type # "document" THEN type ELSE ""]

\* preloadResource() with the test of preloadedResources left out.
AlreadyPreloaded_Never(recorded, url) == FALSE

\* this.preloadedResources.has(url)
AlreadyPreloaded(recorded, url) == url \in recorded

\* preloadResource(url, type) on the preloader state p.
PreloadResource(p, url, type) ==
    IF AlreadyPreloaded(p.recorded, url)
    THEN [p EXCEPT !.requested = @ \cup {url}, !.repeated = TRUE]
    ELSE [p EXCEPT !.requested = @ \cup {url},
                   !.links = Append(@, PrefetchLink(url, type)),
                   !.recorded = @ \cup {url}]

\* urls.forEach(url => this.preloadResource(url, type))
RECURSIVE PreloadEach(_, _, _)
PreloadEach(p, urls, type) ==
    IF urls = <<>> THEN p
    ELSE PreloadEach(PreloadResource(p, Head(urls), type), Tail(urls), type)

\* cityCards.forEach(...): the anchor as a document, then the image.
RECURSIVE PreloadCards(_, _)
PreloadCards(p, cards) ==
    IF cards = <<>> THEN p
    ELSE PreloadCards(
           PreloadResource(PreloadResource(p, Head(cards).href, "document"),
                           Head(cards).dataSrc, "image"),
           Tail(cards))

Preloader ==
    [recorded |-> preloadedResources, links |-> headLinks,
     requested |-> requestedUrls, repeated |-> repeated]

\* The preloader and document.head become p.
PreloaderBecomes(p) ==
    /\ resourceOps < MaxResourceOps
    /\ resourceOps' = resourceOps + 1
    /\ preloadedResources' = p.recorded
    /\ headLinks' = p.links
    /\ requestedUrls' = p.requested
    /\ repeated' = p.repeated
    /\ UNCHANGED <<currentPath, swVars, preVars, regVars, memVars, lsVars, pushVars,
                   retryVars>>

\* A direct call of preloadResource(url, type).
PreloadResourceCall ==
    \E url \in {"/cities", "/about"}, type \in ResourceTypes :
      PreloaderBecomes(PreloadResource(Preloader, url, type))

\* preloadCriticalResources()
PreloadCriticalResources ==
    PreloaderBecomes(PreloadEach(Preloader, CriticalResources, "document"))

\* preloadNextPage()
PreloadNextPage ==
    PreloaderBecomes(
      IF currentPath = <<>> \/ currentPath = <<"en">>
      THEN PreloadEach(Preloader, NextPageOfHome, "document")
      ELSE IF IsCityList(currentPath)
      THEN PreloadEach(Preloader, NextPageOfList, "document")
      ELSE Preloader)

\* preloadPopularCities()
PreloadPopularCities ==
    PreloaderBecomes(PreloadEach(Preloader, PopularCityImages, "image"))

\* The mouseover listener: an anchor of the page's own host is preloaded.
Hover ==
    \E a \in Hoverable :
      PreloaderBecomes(IF a.hostname = "host"
                       THEN PreloadResource(Preloader, a.href, "document")
                       ELSE Preloader)

\* preloadVisibleContent(): the cards about to enter the viewport.
PreloadVisibleContent ==
    \E n \in 0..Len(CityCards) :
      PreloaderBecomes(PreloadCards(Preloader, SubSeq(CityCards, 1, n)))

NextResource ==
    \/ PreloadResourceCall
    \/ PreloadCriticalResources
    \/ PreloadNextPage
    \/ PreloadPopularCities
    \/ Hover
    \/ PreloadVisibleContent

\* --------------------------------------------------------------- memory cache
MemKeys == {"a", "b"}
MemValues == {"v1", "v2"}
MemTtls == {1}

\* The value get() returns for a miss.
Null == "null"

Item(data, timestamp, ttl) ==
    [present |-> TRUE, data |-> data, timestamp |-> timestamp, ttl |-> ttl]
NoItem == [present |-> FALSE, data |-> Null, timestamp |-> 0, ttl |-> 0]

\* The expiry test with the boundary counted as expired.
Expired_AtTtl(item, t) == t - item.timestamp >= item.ttl

\* now - item.timestamp > item.ttl
Expired(item, t) == t - item.timestamp > item.ttl

\* What get() returns for the entry found under a key.
GetResult(item, t) ==
    IF ~item.present THEN Null
    ELSE IF Expired(item, t) THEN Null
    ELSE item.data

\* What get() leaves under the key.
GetLeaves(item, t) ==
    IF item.present /\ Expired(item, t) THEN NoItem ELSE item

NeverWritten == [item |-> NoItem, missed |-> FALSE]
NoGet == [key |-> "", at |-> 0, result |-> Null, written |-> NeverWritten, left |-> NoItem]

MemFrame == UNCHANGED <<swVars, preVars, regVars, resVars, lsVars, pushVars, retryVars>>

\* The clock advances.
Tick ==
    /\ now < MaxNow
    /\ now' = now + 1
    /\ UNCHANGED <<memCache, memGot, memWritten>>
    /\ MemFrame

\* CacheManager.set(key, data, ttl)
MemSet ==
    \E key \in MemKeys, data \in MemValues, ttl \in MemTtls :
      /\ memCache' = [memCache EXCEPT ![key] = Item(data, now, ttl)]
      /\ memWritten' = [memWritten EXCEPT ![key] =
                           [item |-> Item(data, now, ttl), missed |-> FALSE]]
      /\ UNCHANGED <<now, memGot>>
      /\ MemFrame

\* CacheManager.get(key)
MemGet ==
    \E key \in MemKeys :
      /\ memCache' = [memCache EXCEPT ![key] = GetLeaves(@, now)]
      /\ memGot' = [key |-> key, at |-> now, result |-> GetResult(memCache[key], now),
                    written |-> memWritten[key], left |-> GetLeaves(memCache[key], now)]
      /\ memWritten' = [memWritten EXCEPT ![key].missed =
                           @ \/ GetResult(memCache[key], now) = Null]
      /\ UNCHANGED now
      /\ MemFrame

\* CacheManager.clear()
MemClear ==
    /\ memCache' = [k \in MemKeys |-> NoItem]
    /\ memWritten' = [k \in MemKeys |-> [memWritten[k] EXCEPT !.missed = TRUE]]
    /\ UNCHANGED <<now, memGot>>
    /\ MemFrame

\* The sweep that deletes every entry it visits.
SweepLeaves_All(item, t) == NoItem

\* cleanup(): if (now - item.timestamp > item.ttl) this.cache.delete(key)
SweepLeaves(item, t) ==
    IF item.present /\ t - item.timestamp > item.ttl THEN NoItem ELSE item

\* CacheManager.cleanup(): the sweep of the expired entries.
MemCleanup ==
    /\ memCache' = [k \in MemKeys |-> SweepLeaves(memCache[k], now)]
    /\ UNCHANGED <<now, memGot, memWritten>>
    /\ MemFrame

NextMemory == Tick \/ MemSet \/ MemGet \/ MemClear \/ MemCleanup

\* ------------------------------------------------- network-aware local cache
\* A key is the sequence of its parts: 'backup_home' is <<"backup_", "home">>, and
\* the storage key 'cnusergroup_backup_home' <<"cnusergroup_", "backup_", "home">>.
PREFIX == "cnusergroup_"
OFFLINE_TAG == "offline_"
BACKUP_TAG == "backup_"

LocalKeys == {<<"home">>, <<"city">>}

\* The stored values: "0" is the number 0, "v1" and "v2" are objects.
LsValues == {"0", "v1"}
LsTtls == {1}
Priorities == {"high", "medium", "low"}

\* this.prefix + key
StorageKey(key) == <<PREFIX>> \o key

\* `offline_${key}`, `backup_${key}`
Tagged(tag, key) == <<tag>> \o key

\* The keys of window.localStorage: the three slots of every key of this cache,
\* and two keys of other code of the origin.
ForeignKeys == {<<OFFLINE_TAG, "home">>, <<"theme">>}
StorageKeys ==
    {StorageKey(k) : k \in LocalKeys}
    \cup {StorageKey(Tagged(OFFLINE_TAG, k)) : k \in LocalKeys}
    \cup {StorageKey(Tagged(BACKUP_TAG, k)) : k \in LocalKeys}
    \cup ForeignKeys

\* The text under a storage key: JSON.stringify(item), some other text, or nothing.
Stringify(item) == [kind |-> "json", item |-> item]
OtherText == [kind |-> "other", item |-> NoItem]
NoText == [kind |-> "none", item |-> NoItem]

\* !data
Falsy(data) == data \in {Null, "0", "false", ""}

\* now - parsed.timestamp > parsed.ttl
TtlPassed(item, t) == t - item.timestamp > item.ttl

\* What window.localStorage does in this visit: it works, or setItem() throws a
\* QuotaExceededError, or every access to it throws a SecurityError.
StorageFaults == {"none", "quota", "denied"}

\* localStorage.setItem() throws.
SetItemThrows == storageFault \in {"quota", "denied"}

\* Reading the property window.localStorage throws.
AccessThrows == storageFault = "denied"

\* LocalStorageCache.set(key, data, ttl) on the storage ls: the catch block turns
\* an exception of setItem() into a warning.
LocalSet(ls, key, data, ttl, t) ==
    IF SetItemThrows THEN ls
    ELSE [ls EXCEPT ![StorageKey(key)] = Stringify(Item(data, t, ttl))]

\* LocalStorageCache.remove(key), with its catch block.
LocalRemove(ls, key) ==
    IF AccessThrows THEN ls ELSE [ls EXCEPT ![StorageKey(key)] = NoText]

\* LocalStorageCache.clear(), with its catch block: every key of the namespace is
\* removed.
LocalClear(ls) ==
    IF AccessThrows THEN ls
    ELSE [sk \in DOMAIN ls |-> IF StartsWith(sk, <<PREFIX>>) THEN NoText ELSE ls[sk]]

\* LocalStorageCache.get(key): what it returns; JSON.parse of other text throws,
\* which the catch block turns into null.
LocalGet(ls, key, t) ==
    LET text == ls[StorageKey(key)] IN
      IF AccessThrows THEN Null
      ELSE IF text.kind = "none" THEN Null
      ELSE IF text.kind # "json" THEN Null
      ELSE IF TtlPassed(text.item, t) THEN Null
      ELSE text.item.data

\* LocalStorageCache.get(key): the storage it leaves.
LocalGetLeaves(ls, key, t) ==
    LET text == ls[StorageKey(key)] IN
      IF ~AccessThrows /\ text.kind = "json" /\ TtlPassed(text.item, t)
      THEN LocalRemove(ls, key)
      ELSE ls

\* key.replace(part, ''): the first occurrence of the part is taken out.
RECURSIVE ReplaceFirst(_, _)
ReplaceFirst(key, part) ==
    IF key = <<>> THEN <<>>
    ELSE IF Head(key) = part THEN Tail(key)
    ELSE <<Head(key)>> \o ReplaceFirst(Tail(key), part)

\* The purge test that asks for the namespace only.
IsOfflineKey_WholeNamespace(sk) == StartsWith(sk, <<PREFIX>>)

\* key.startsWith(this.prefix + 'offline_')
IsOfflineKey(sk) == StartsWith(sk, <<PREFIX, OFFLINE_TAG>>)

\* Object.keys(localStorage)
PresentKeys(ls) == {sk \in StorageKeys : ls[sk].kind # "none"}

\* cleanupOfflineCache() reads Object.keys(localStorage) outside of any try block.
PurgeThrows == AccessThrows

\* cleanupOfflineCache(): every present key that passes the test is removed by
\* this.remove(key.replace(this.prefix, '')).
CleanupOfflineCache(ls) ==
    LET doomed == {StorageKey(ReplaceFirst(sk, PREFIX)) :
                      sk \in {k \in PresentKeys(ls) : IsOfflineKey(k)}}
    IN [sk \in StorageKeys |-> IF sk \in doomed THEN NoText ELSE ls[sk]]

\* The TTL of the offline copy, taken as the plain TTL.
OfflineTtl_Plain(ttl) == ttl

\* ttl * 7
OfflineTtl(ttl) == ttl * 7

\* ttl * 2
BackupTtl(ttl) == ttl * 2

\* smartSet(key, data, {ttl, priority, networkDependent}) on the storage ls.
SmartSetOn(ls, key, data, ttl, priority, networkDependent, online, t) ==
    LET first == IF ~online /\ networkDependent
                 THEN LocalSet(ls, Tagged(OFFLINE_TAG, key), data, OfflineTtl(ttl), t)
                 ELSE LocalSet(ls, key, data, ttl, t)
    IN IF priority = "high"
       THEN LocalSet(first, Tagged(BACKUP_TAG, key), data, BackupTtl(ttl), t)
       ELSE first

\* smartGet(key): the three lookups in turn, each on the storage the one before left.
SmartGetOn(ls, key, online, t) ==
    LET d1 == LocalGet(ls, key, t)
        ls1 == LocalGetLeaves(ls, key, t)
        asked2 == Falsy(d1) /\ ~online
        d2 == IF asked2 THEN LocalGet(ls1, Tagged(OFFLINE_TAG, key), t) ELSE d1
        ls2 == IF asked2 THEN LocalGetLeaves(ls1, Tagged(OFFLINE_TAG, key), t) ELSE ls1
        asked3 == Falsy(d2)
        d3 == IF asked3 THEN LocalGet(ls2, Tagged(BACKUP_TAG, key), t) ELSE d2
        ls3 == IF asked3 THEN LocalGetLeaves(ls2, Tagged(BACKUP_TAG, key), t) ELSE ls2
    IN [result |-> d3, leaves |-> ls3]

EmptyStorage == [sk \in StorageKeys |-> NoText]
NoSmartGet ==
    [key |-> <<>>, at |-> 0, online |-> TRUE, result |-> Null, before |-> EmptyStorage,
     sets |-> 0, fault |-> "none"]
NoSmartPut ==
    [key |-> <<>>, data |-> Null, ttl |-> 0, priority |-> "medium",
     networkDependent |-> FALSE, online |-> TRUE, at |-> 0,
     before |-> EmptyStorage, after |-> EmptyStorage, fault |-> "none"]

LocalFrame == UNCHANGED <<swVars, preVars, regVars, resVars, memCache, memGot, memWritten,
                          pushVars, retryVars>>

\* networkCache.smartSet(key, data, options)
SmartSet ==
    /\ smartSets < MaxSmartSets
    /\ \E key \in LocalKeys, data \in LsValues, ttl \in LsTtls,
          priority \in Priorities, networkDependent \in BOOLEAN :
         /\ localStorage' = SmartSetOn(localStorage, key, data, ttl, priority,
                                       networkDependent, isOnline, now)
         /\ smartPut' = [key |-> key, data |-> data, ttl |-> ttl, priority |-> priority,
                         networkDependent |-> networkDependent, online |-> isOnline,
                         at |-> now, before |-> localStorage, fault |-> storageFault,
                         after |-> SmartSetOn(localStorage, key, data, ttl, priority,
                                              networkDependent, isOnline, now)]
    /\ smartSets' = smartSets + 1
    /\ UNCHANGED <<now, isOnline, smartGot, storageFault, lsRaised>>
    /\ LocalFrame

\* networkCache.smartGet(key)
SmartGet ==
    \E key \in LocalKeys :
      /\ localStorage' = SmartGetOn(localStorage, key, isOnline, now).leaves
      /\ smartGot' = [key |-> key, at |-> now, online |-> isOnline,
                      result |-> SmartGetOn(localStorage, key, isOnline, now).result,
                      before |-> localStorage, sets |-> smartSets,
                      fault |-> storageFault]
      /\ UNCHANGED <<now, isOnline, smartPut, smartSets, storageFault, lsRaised>>
      /\ LocalFrame

\* The 'online' event: isOnline = true, syncWhenOnline(); an exception of the
\* purge leaves the listener.
GoOnline ==
    /\ ~isOnline
    /\ isOnline' = TRUE
    /\ localStorage' = IF PurgeThrows THEN localStorage
                       ELSE CleanupOfflineCache(localStorage)
    /\ lsRaised' = (lsRaised \/ PurgeThrows)
    /\ UNCHANGED <<now, smartGot, smartPut, smartSets, storageFault>>
    /\ LocalFrame

\* The 'offline' event.
GoOffline ==
    /\ isOnline
    /\ isOnline' = FALSE
    /\ UNCHANGED <<now, localStorage, smartGot, smartPut, smartSets, storageFault, lsRaised>>
    /\ LocalFrame

NextLocal == SmartSet \/ SmartGet \/ GoOnline \/ GoOffline

\* localCache.clear()
LocalClearCall ==
    /\ localStorage' = LocalClear(localStorage)
    /\ UNCHANGED <<now, isOnline, smartGot, smartPut, smartSets, storageFault, lsRaised>>
    /\ LocalFrame

\* The persisted cache on a storage that may fail.
NextFaulty == NextLocal \/ LocalClearCall

\* ------------------------------------------------------------ initial states
EmptyStore == [n \in AllCacheNames |-> <<>>]

IdleTrim == [pc |-> "idle", names |-> <<>>, i |-> 1, old |-> {}]

\* The image preloader and the registry of a page that has just loaded.
InitImages ==
    /\ pcache = [s \in Srcs |-> "absent"]
    /\ ploading = {}
    /\ callers = <<>>
    /\ cleared = FALSE
    /\ batch = NoBatch
    /\ retryCount = 0
    /\ timers = <<>>
    /\ reassigned = <<>>
    /\ imageErrors = 0
    /\ loadingImages = {}
    /\ loadedImages = {}
    /\ failedImages = {}

\* The resource preloader of a page that has just loaded.
InitNoPrefetch ==
    /\ resourceOps = 0
    /\ preloadedResources = {}
    /\ headLinks = <<>>
    /\ requestedUrls = {}
    /\ repeated = FALSE

\* The memory cache of a page that has just loaded.
InitMemoryEmpty ==
    /\ memCache = [k \in MemKeys |-> NoItem]
    /\ memGot = NoGet
    /\ memWritten = [k \in MemKeys |-> NeverWritten]

\* The network-aware cache before its first call.
InitNoSmartCalls ==
    /\ storageFault = "none"
    /\ lsRaised = FALSE
    /\ smartGot = NoSmartGet
    /\ smartPut = NoSmartPut
    /\ smartSets = 0

InitPage ==
    /\ InitImages
    /\ InitNoPrefetch
    /\ currentPath = <<>>
    /\ now = 0
    /\ InitMemoryEmpty
    /\ localStorage = EmptyStorage
    /\ isOnline = TRUE
    /\ InitNoSmartCalls

InitWorker ==
    /\ bypassed = {}
    /\ pushLog = <<>>
    /\ notifications = <<>>
    /\ openedWindows = {}
    /\ handlers = <<>>
    /\ puts = {}
    /\ unhandled = FALSE
    /\ trim = IdleTrim
    /\ before = [keys |-> <<>>, store |-> EmptyStore]
    /\ trimClean = TRUE
    /\ trimRuns = 0
    /\ installBad = {}

\* The cache storage outlives worker versions: an activated worker finds the three
\* current caches absent or holding what earlier interceptions left.
InitFetch ==
    /\ phase = "activated"
    /\ fetchLimit = MaxHandlers
    /\ \E ns \in {0, 1, OFFLINE_URL}, nd \in {0, 1}, ni \in {0, 1} :
         /\ store = [EmptyStore EXCEPT ![STATIC_CACHE] = Filled(ns),
                                       ![DYNAMIC_CACHE] = Filled(nd),
                                       ![IMAGE_CACHE] = Filled(ni)]
         /\ cacheKeys = SelectSeq(<<STATIC_CACHE, DYNAMIC_CACHE, IMAGE_CACHE>>,
                                  LAMBDA n : store[n] # <<>>)
    /\ InitWorker
    /\ InitPage

SpecFetch == InitFetch /\ [][NextFetch]_vars

\* The names of the caches an installing version may find, in creation order.
KnownNames == <<OLD_STATIC_CACHE, CACHE_NAME, STATIC_CACHE, DYNAMIC_CACHE, IMAGE_CACHE>>

\* A new version is parsed while the storage holds any of the known caches.
InitLife ==
    /\ phase = "parsed"
    /\ fetchLimit = 1
    /\ \E present \in SUBSET AllCacheNames, ns \in {1, OFFLINE_URL} :
         /\ cacheKeys = SelectSeq(KnownNames, LAMBDA n : n \in present)
         /\ store = [n \in AllCacheNames |->
                        IF n \notin present THEN <<>>
                        ELSE IF n = STATIC_CACHE THEN Filled(ns) ELSE Filled(1)]
    /\ InitWorker
    /\ InitPage

SpecLife == InitLife /\ [][NextLife]_vars

\* The sizes of the caches an activated worker may hold when a trim is asked for.
FillSizes == {0, TRIM_THRESHOLD} \cup {TRIM_THRESHOLD + k : k \in 1..MaxOver}

InitTrim ==
    /\ phase = "activated"
    /\ fetchLimit = 1
    /\ \E ns \in FillSizes, nd \in FillSizes, ni \in {0, TRIM_THRESHOLD + MaxOver} :
         /\ store = [EmptyStore EXCEPT ![STATIC_CACHE] = Filled(ns),
                                       ![DYNAMIC_CACHE] = Filled(nd),
                                       ![IMAGE_CACHE] = Filled(ni)]
         /\ cacheKeys = SelectSeq(<<STATIC_CACHE, DYNAMIC_CACHE, IMAGE_CACHE>>,
                                  LAMBDA n : store[n] # <<>>)
    /\ InitWorker
    /\ InitPage

SpecTrim == InitTrim /\ [][NextTrim]_vars

\* A page: the worker plays no part.
InitIdleWorker ==
    /\ phase = "parsed"
    /\ fetchLimit = 0
    /\ cacheKeys = <<>>
    /\ store = EmptyStore
    /\ InitWorker
    /\ InitPage

SpecPreload == InitIdleWorker /\ [][NextPreload]_vars

\* The browser delivers the events of a probe (the 5 s timer at the latest) and
\* fires the 100 ms interval of a waiting caller.
SpecBatch ==
    /\ InitIdleWorker
    /\ [][NextBatch]_vars
    /\ WF_vars(ProbeSettle)
    /\ WF_vars(PollTick)

SpecRegistry == InitIdleWorker /\ [][NextRegistry]_vars

\* An activated worker that answers one request.
InitRoute ==
    /\ phase = "activated"
    /\ fetchLimit = 1
    /\ \E ns \in {0, OFFLINE_URL}, nd \in {0, 1}, ni \in {0, 1} :
         /\ store = [EmptyStore EXCEPT ![STATIC_CACHE] = Filled(ns),
                                       ![DYNAMIC_CACHE] = Filled(nd),
                                       ![IMAGE_CACHE] = Filled(ni)]
         /\ cacheKeys = SelectSeq(<<STATIC_CACHE, DYNAMIC_CACHE, IMAGE_CACHE>>,
                                  LAMBDA n : store[n] # <<>>)
    /\ InitWorker
    /\ InitPage

SpecRoute == InitRoute /\ [][NextRoute]_vars

\* An activated worker that intercepts two requests for static assets, one while
\* the other is being answered.
InitRace ==
    /\ phase = "activated"
    /\ fetchLimit = 2
    /\ \E ns \in {0, 1} :
         /\ store = [EmptyStore EXCEPT ![STATIC_CACHE] = Filled(ns)]
         /\ cacheKeys = SelectSeq(<<STATIC_CACHE>>, LAMBDA n : store[n] # <<>>)
    /\ InitWorker
    /\ InitPage

NextRace ==
    \/ DispatchStatic
    \/ CacheFirstOpen
    \/ CacheFirstMatch
    \/ CacheFirstFetch
    \/ Fallback
    \/ PutCommit
    \/ PutFail

SpecRace == InitRace /\ [][NextRace]_vars

\* A page whose images fail to load.
SpecRetry == InitIdleWorker /\ [][NextRetry]_vars

\* A page of the site has just loaded.
InitResource ==
    /\ phase = "parsed"
    /\ fetchLimit = 0
    /\ cacheKeys = <<>>
    /\ store = EmptyStore
    /\ InitWorker
    /\ InitImages
    /\ InitNoPrefetch
    /\ currentPath \in Pathnames
    /\ now = 0
    /\ InitMemoryEmpty
    /\ localStorage = EmptyStorage
    /\ isOnline = TRUE
    /\ InitNoSmartCalls

SpecResource == InitResource /\ [][NextResource]_vars

SpecMemory == InitIdleWorker /\ [][NextMemory]_vars

\* An activated worker that receives push messages.
InitPush ==
    /\ phase = "activated"
    /\ fetchLimit = 0
    /\ store = [EmptyStore EXCEPT ![STATIC_CACHE] = Filled(OFFLINE_URL)]
    /\ cacheKeys = <<STATIC_CACHE>>
    /\ InitWorker
    /\ InitPage

SpecPush == InitPush /\ [][NextPush]_vars

\* The time of the visit; what earlier visits wrote, they wrote at time 0.
VisitTime == MaxNow - 1

\* What an earlier visit may have left under the keys of this cache: a primary
\* entry that has expired, an offline copy and a backup copy that have not, a text
\* that is not JSON.
Leftover ==
    [EmptyStorage EXCEPT
       ![StorageKey(<<"home">>)] = Stringify(Item("v2", 0, VisitTime - 1)),
       ![StorageKey(Tagged(OFFLINE_TAG, <<"home">>))] = Stringify(Item("v1", 0, 7 * VisitTime)),
       ![StorageKey(Tagged(BACKUP_TAG, <<"home">>))] = Stringify(Item("v2", 0, VisitTime)),
       ![StorageKey(<<"city">>)] = OtherText]

\* What an earlier visit may have left that is still fresh: a primary entry that
\* has not expired.
Fresh ==
    [EmptyStorage EXCEPT
       ![StorageKey(<<"city">>)] = Stringify(Item("v2", 0, VisitTime))]

\* What other code of the origin keeps in localStorage.
ForeignStorage(ls) ==
    [ls EXCEPT ![<<OFFLINE_TAG, "home">>] = Stringify(Item("v1", 0, 1)),
               ![<<"theme">>] = OtherText]

\* networkCache is constructed: isOnline = navigator.onLine, and localStorage
\* holds what earlier visits left.
InitLocal ==
    /\ phase = "parsed"
    /\ fetchLimit = 0
    /\ cacheKeys = <<>>
    /\ store = EmptyStore
    /\ InitWorker
    /\ InitImages
    /\ InitNoPrefetch
    /\ currentPath = <<>>
    /\ now = VisitTime
    /\ InitMemoryEmpty
    /\ localStorage \in {ForeignStorage(EmptyStorage), ForeignStorage(Leftover),
                         ForeignStorage(Fresh)}
    /\ isOnline \in BOOLEAN
    /\ InitNoSmartCalls

SpecLocal == InitLocal /\ [][NextLocal]_vars

\* networkCache is constructed in a browser whose storage works, is full, or is
\* blocked.
InitFaulty ==
    /\ phase = "parsed"
    /\ fetchLimit = 0
    /\ cacheKeys = <<>>
    /\ store = EmptyStore
    /\ InitWorker
    /\ InitImages
    /\ InitNoPrefetch
    /\ currentPath = <<>>
    /\ now = VisitTime
    /\ InitMemoryEmpty
    /\ localStorage \in {ForeignStorage(EmptyStorage), ForeignStorage(Leftover)}
    /\ isOnline \in BOOLEAN
    /\ storageFault \in StorageFaults
    /\ lsRaised = FALSE
    /\ smartGot = NoSmartGet
    /\ smartPut = NoSmartPut
    /\ smartSets = 0

SpecFaulty == InitFaulty /\ [][NextFaulty]_vars

\* ------------------------------------------------- properties, service worker
Done(h) == handlers[h].pc = "done"
CacheFirst(h) == handlers[h].strategy \in {"image", "static"}
HasEntry(entries, url) == \E i \in 1..Len(entries) : entries[i].url = url

\* C1: when cache.match() of an image or static interception finds an entry for the
\* request, the handler returns exactly the stored response, asks the network for
\* nothing and writes nothing into a cache.
C1_CacheFirstHit ==
    [][\A h \in 1..Len(handlers) :
         ( /\ Running(h, {"match"}, {"image", "static"})
           /\ HasEntry(store[StrategyCache(handlers[h].strategy)], handlers[h].url)
           /\ handlers'[h] # handlers[h] )
         => /\ handlers'[h].pc = "done"
            /\ \E i \in 1..Len(store[StrategyCache(handlers[h].strategy)]) :
                 /\ store[StrategyCache(handlers[h].strategy)][i].url = handlers[h].url
                 /\ store[StrategyCache(handlers[h].strategy)][i].resp = handlers'[h].out
            /\ handlers'[h].net = NoResponse
            /\ ~handlers'[h].putIssued
            /\ puts' = puts
            /\ store' = store]_vars

C1_Witness ==
    \E h \in 1..Len(handlers) :
      /\ Done(h) /\ CacheFirst(h)
      /\ handlers[h].cached # NoResponse
      /\ handlers[h].out = handlers[h].cached
      /\ handlers[h].net = NoResponse

\* C2: when a dynamic interception delivers an ok network response, the dynamic cache
\* already holds that response for the request.
C2_WriteBeforeDeliver ==
    \A h \in 1..Len(handlers) :
      ( /\ Done(h) /\ handlers[h].strategy = "dynamic"
        /\ IsOk(handlers[h].net) /\ handlers[h].out = handlers[h].net )
      => handlers[h].inCache

\* C3: a navigation whose fetch failed and that has no cache entry is answered with
\* the cached fallback page (offline page for static, site root for dynamic and
\* default) or, when that page is not cached, with a synthesized 503.
C3_NavigationFallback ==
    \A h \in 1..Len(handlers) :
      (Done(h) /\ handlers[h].fellBack /\ handlers[h].net = Rejected)
      => handlers[h].out = IF handlers[h].page # NoResponse
                           THEN handlers[h].page
                           ELSE Response(503, "Offline")

\* C4: every interception ends with a response object, whatever the network, the
\* cache lookup and the cache storage do, and no rejection is left unhandled.
C4_AlwaysAResponse ==
    /\ \A h \in 1..Len(handlers) : Done(h) => IsResponse(handlers[h].out)
    /\ ~unhandled

\* C5: when the fetch of a manifest URL fails or is not ok, the install fails as a
\* whole: the static cache holds no entry written by this install, and the version
\* is redundant and intercepts no fetch.
C5_InstallAllOrNothing ==
    installBad # {} =>
      /\ phase = "redundant"
      /\ handlers = <<>>
      /\ \A i \in 1..Len(store[STATIC_CACHE]) :
           store[STATIC_CACHE][i].resp.body # "install"

C5_Witness ==
    /\ installBad # {}
    /\ phase = "redundant"
    /\ Exists(STATIC_CACHE)

\* C6: right after activation the existing caches are those that existed before and
\* bear one of the three current names; the three current caches keep their
\* entries and every other cache is gone.
C6_ActivateDeletesStale ==
    (phase = "activated" /\ handlers = <<>>) =>
      /\ Range(cacheKeys) = Range(before.keys) \cap CurrentCaches
      /\ \A n \in CurrentCaches : store[n] = before.store[n]
      /\ \A n \in AllCacheNames \ CurrentCaches : store[n] = <<>>

C6_Witness ==
    /\ phase = "activated" /\ handlers = <<>>
    /\ Range(before.keys) = CurrentCaches \cup {OLD_STATIC_CACHE}
    /\ Range(cacheKeys) = CurrentCaches
    /\ before.store[OLD_STATIC_CACHE] # <<>>

\* C7: a trim that ran to its end with no put in between leaves of every cache of
\* more than 100 entries exactly the last 50, in order, and leaves every other
\* cache as it was; every cache then holds at most 100 entries, and a trim that
\* follows another changes nothing.
C7_TrimResult ==
    (trim.pc = "done" /\ trimClean) =>
      /\ \A n \in AllCacheNames :
           /\ Len(before.store[n]) > 100 =>
                store[n] = SubSeq(before.store[n], Len(before.store[n]) - 49,
                                  Len(before.store[n]))
           /\ Len(before.store[n]) <= 100 => store[n] = before.store[n]
           /\ Len(store[n]) <= 100
      /\ trimRuns >= 2 => store = before.store

C7_Witness ==
    /\ trim.pc = "done" /\ trimClean /\ trimRuns >= 2
    /\ Len(store[STATIC_CACHE]) = 50
    /\ store[STATIC_CACHE][1].url = 52
    /\ Len(store[DYNAMIC_CACHE]) = 100

\* ------------------------------------------------------ properties, page side
InFlight(src) == {c \in 1..Len(callers) : callers[c].pc = "probing" /\ callers[c].src = src}
Probes(src) == {c \in 1..Len(callers) : callers[c].issued /\ callers[c].src = src}
Coalesced(c) == callers[c].onto # 0
RegistryDisjoint ==
    /\ loadingImages \cap loadedImages = {}
    /\ loadingImages \cap failedImages = {}
    /\ loadedImages \cap failedImages = {}

\* C8: at most one probe of a URL is in flight at any time; a caller that arrives
\* while a probe of its URL is in flight starts none; and as long as the results are
\* not cleared, the callers of one URL cause exactly one probe.
C8_SingleProbe ==
    /\ \A src \in Srcs : Cardinality(InFlight(src)) <= 1
    /\ \A c \in 1..Len(callers) : Coalesced(c) => ~callers[c].issued
    /\ \A c \in 1..Len(callers) :
         ~cleared => Cardinality(Probes(callers[c].src)) = 1

C8_Witness ==
    \E src \in Srcs :
      /\ Cardinality(InFlight(src)) = 1
      /\ Cardinality({c \in 1..Len(callers) : Coalesced(c) /\ callers[c].src = src
                                              /\ callers[c].pc = "polling"}) >= 2

\* C9: a caller coalesced onto a probe in flight resolves with the boolean the
\* caller that issued the probe resolved with.
C9_SharedOutcome ==
    \A c \in 1..Len(callers) :
      (Coalesced(c) /\ callers[c].pc = "done")
      => /\ callers[callers[c].onto].pc = "done"
         /\ callers[c].result = callers[callers[c].onto].result

\* C10: the sets loading, loaded and failed are pairwise disjoint, and a URL that is
\* loaded or failed neither enters loading again nor enters the other of the two.
C10_DisjointTerminal ==
    /\ []RegistryDisjoint
    /\ [][\A src \in Images :
            /\ src \in loadedImages \cup failedImages => src \notin loadingImages'
            /\ src \in loadedImages => src \notin failedImages'
            /\ src \in failedImages => src \notin loadedImages']_vars

\* ------------------------------------------- properties, caches of the page
DirectivesFor(url) == {i \in 1..Len(headLinks) : headLinks[i].href = url}

\* C11: after any sequence of preloadResource calls exactly one prefetch directive
\* has been injected for every URL requested, whatever the type arguments were, and
\* the recorded URLs are the URLs that have a directive.
C11_OneDirectivePerUrl ==
    /\ \A url \in requestedUrls : Cardinality(DirectivesFor(url)) = 1
    /\ \A i \in 1..Len(headLinks) : headLinks[i].rel = "prefetch"
    /\ preloadedResources = {headLinks[i].href : i \in 1..Len(headLinks)}
    /\ preloadedResources = requestedUrls

C11_Witness ==
    /\ repeated
    /\ Cardinality(requestedUrls) >= 5
    /\ \E i \in 1..Len(headLinks) : headLinks[i].as = "image"

\* C12: a get() returns the value last set for the key when its age is at most the
\* TTL (the age equal to the TTL included); otherwise it misses and removes the
\* entry; after a miss or a clear() every get() of the key misses until the next
\* set(), and a miss leaves no entry behind.
C12_MemoryTtl ==
    memGot.key # "" =>
      LET w == memGot.written
          age == memGot.at - w.item.timestamp
          live == w.item.present /\ ~w.missed
      IN /\ (live /\ age <= w.item.ttl) =>
              (memGot.result = w.item.data /\ memGot.left = w.item)
         /\ (live /\ age > w.item.ttl) =>
              (memGot.result = Null /\ ~memGot.left.present)
         /\ ~live => (memGot.result = Null /\ ~memGot.left.present)

C12_Witness ==
    /\ memGot.key # ""
    /\ memGot.written.item.present /\ ~memGot.written.missed
    /\ memGot.at - memGot.written.item.timestamp > memGot.written.item.ttl
    /\ memGot.result = Null
    /\ memWritten[memGot.key].missed
    /\ now > memGot.at

\* A slot holds a present, unexpired entry.
Hit(ls, key, t) ==
    /\ ls[StorageKey(key)].kind = "json"
    /\ t - ls[StorageKey(key)].item.timestamp <= ls[StorageKey(key)].item.ttl
DataOf(ls, key) == ls[StorageKey(key)].item.data

\* C13: smartGet returns the value of the first slot holding a present, unexpired
\* entry, in the order primary, offline copy (only while offline), backup copy,
\* and null when none does; falsy values are returned like any other.
C13_ResolutionOrder ==
    smartGot.key # <<>> =>
      LET ls == smartGot.before
          k == smartGot.key
          t == smartGot.at
      IN smartGot.result =
           IF Hit(ls, k, t) THEN DataOf(ls, k)
           ELSE IF ~smartGot.online /\ Hit(ls, Tagged(OFFLINE_TAG, k), t)
                THEN DataOf(ls, Tagged(OFFLINE_TAG, k))
           ELSE IF Hit(ls, Tagged(BACKUP_TAG, k), t)
                THEN DataOf(ls, Tagged(BACKUP_TAG, k))
           ELSE Null

\* C14: smartSet writes the value to the offline copy with 7 times the TTL and leaves
\* the primary slot alone when the cache is offline and the data network
\* dependent, and otherwise writes the primary slot with the TTL and leaves the
\* offline copy alone; it writes the backup copy with twice the TTL exactly when
\* the priority is high; no other key changes.
C14_TierSelection ==
    smartPut.key # <<>> =>
      LET b == smartPut.before
          a == smartPut.after
          primary == StorageKey(smartPut.key)
          offline == StorageKey(Tagged(OFFLINE_TAG, smartPut.key))
          backup == StorageKey(Tagged(BACKUP_TAG, smartPut.key))
          written(ttl) == Stringify(Item(smartPut.data, smartPut.at, ttl))
      IN /\ IF ~smartPut.online /\ smartPut.networkDependent
            THEN a[offline] = written(7 * smartPut.ttl) /\ a[primary] = b[primary]
            ELSE a[primary] = written(smartPut.ttl) /\ a[offline] = b[offline]
         /\ IF smartPut.priority = "high"
            THEN a[backup] = written(2 * smartPut.ttl)
            ELSE a[backup] = b[backup]
         /\ \A sk \in StorageKeys \ {primary, offline, backup} : a[sk] = b[sk]

C14_Witness ==
    /\ smartPut.key = <<"home">>
    /\ ~smartPut.online /\ smartPut.networkDependent /\ smartPut.priority = "high"
    /\ smartPut.before[StorageKey(Tagged(BACKUP_TAG, <<"home">>))].kind = "json"
    /\ smartPut.before[StorageKey(Tagged(BACKUP_TAG, <<"home">>))] #
         smartPut.after[StorageKey(Tagged(BACKUP_TAG, <<"home">>))]

\* The offline copies under the keys of this cache.
OfflineCopies == {sk \in StorageKeys : Len(sk) >= 2 /\ sk[1] = PREFIX /\ sk[2] = OFFLINE_TAG}

\* C15: the online event removes every offline copy under the keys of this cache and
\* changes no other key of the storage; while the cache stays online no offline
\* copy is written, and a smartGet made online answers from the primary slot or
\* the backup copy only.
C15_OnlinePurge ==
    /\ [][(~isOnline /\ isOnline') =>
            \A sk \in StorageKeys :
              localStorage'[sk] = IF sk \in OfflineCopies THEN NoText
                                  ELSE localStorage[sk]]_vars
    /\ [][(isOnline /\ isOnline') =>
            \A sk \in OfflineCopies : localStorage'[sk] = localStorage[sk]]_vars
    /\ [](smartGot.key # <<>> /\ smartGot.online =>
            smartGot.result \in {Null, DataOf(smartGot.before, smartGot.key),
                                 DataOf(smartGot.before, Tagged(BACKUP_TAG, smartGot.key))})

C15_Witness ==
    /\ isOnline
    /\ smartPut.key = <<"city">>
    /\ ~smartPut.online /\ smartPut.networkDependent /\ smartPut.priority = "high"
    /\ \A sk \in OfflineCopies : localStorage[sk] = NoText
    /\ localStorage[StorageKey(Tagged(BACKUP_TAG, <<"city">>))].kind = "json"
    /\ localStorage[StorageKey(Tagged(BACKUP_TAG, <<"home">>))].kind = "json"
    /\ localStorage[<<OFFLINE_TAG, "home">>].kind = "json"

\* C16: the first of load, error and the 5 s timer fixes the outcome of a probe: true
\* for load, false for the two others; an event that comes later changes neither
\* what a caller received nor what the preloader cached.
C16_FirstEventWins ==
    /\ [](\A c \in 1..Len(callers) :
            (callers[c].issued /\ callers[c].pc = "done")
            => callers[c].result = (callers[c].events[1] = "load"))
    /\ [][\A c \in 1..Len(callers) :
            /\ (callers[c].pc = "probing" /\ callers'[c].pc = "done")
               => pcache'[callers[c].src] =
                    IF callers'[c].events[1] = "load" THEN "true" ELSE "false"
            /\ (callers[c].pc = "done" /\ callers'[c].events # callers[c].events)
               => /\ pcache' = pcache
                  /\ \A d \in 1..Len(callers) :
                       /\ callers'[d].result = callers[d].result
                       /\ callers'[d].pc = callers[d].pc]_vars

C16_Witness ==
    \E c \in 1..Len(callers) :
      /\ callers[c].events = <<"timeout", "load">>
      /\ callers[c].result = FALSE
      /\ pcache[callers[c].src] = "false"
      /\ \E d \in 1..Len(callers) : callers[d].onto = c /\ callers[d].pc = "done"

\* -------------------------------------------- properties, routing and errors
\* C17: a same-origin request that is not an image, does not satisfy the static
\* asset test and whose pathname matches a dynamic-content pattern is answered by
\* the dynamic strategy.
C17_DynamicClassified ==
    \A h \in 1..Len(handlers) :
      ( /\ handlers[h].req # 0
        /\ handlers[h].dest # "image"
        /\ ~IsStaticAsset(LocationOrigin \o RequestPaths[handlers[h].req])
        /\ MatchesDynamicPattern(
             PathnameOf(LocationOrigin \o RequestPaths[handlers[h].req])) )
      => handlers[h].strategy = "dynamic"

\* An entry (or pending put) of cache n that fetch handling accounts for.
WrittenByFetch(n, url, resp) ==
    /\ IsOk(resp)
    /\ \E h \in 1..Len(handlers) :
         /\ handlers[h].url = url
         /\ handlers[h].net = resp
         /\ handlers[h].strategy \in {"image", "static", "dynamic"}
         /\ StrategyCache(handlers[h].strategy) = n

\* C18: every entry fetch handling writes into a cache is an ok network response of
\* an image, static or dynamic interception of that URL; a response that is not ok
\* is returned as it is with no put, a failed fetch issues no put, the default
\* strategy changes no cache, and a request of another origin changes nothing.
C18_OnlyOkCached ==
    /\ [](/\ \A n \in AllCacheNames : \A i \in 1..Len(store[n]) :
               store[n][i].resp.body # "old"
               => WrittenByFetch(n, store[n][i].url, store[n][i].resp)
          /\ \A p \in puts : WrittenByFetch(p.cache, p.url, p.resp)
          /\ \A h \in 1..Len(handlers) :
               /\ handlers[h].putIssued => IsOk(handlers[h].net)
               /\ handlers[h].strategy = "default" => ~handlers[h].putIssued
               /\ (Done(h) /\ IsResponse(handlers[h].net) /\ ~IsOk(handlers[h].net))
                  => handlers[h].out = handlers[h].net)
    /\ [][/\ bypassed' # bypassed
             => UNCHANGED <<store, cacheKeys, puts, handlers>>
          /\ \A h \in 1..Len(handlers) :
               (handlers[h].strategy = "default" /\ handlers'[h] # handlers[h])
               => UNCHANGED <<store, cacheKeys, puts>>]_vars

C18_Witness ==
    /\ bypassed # {}
    /\ \E h \in 1..Len(handlers) :
         /\ handlers[h].req # 0
         /\ handlers[h].strategy = "static"
         /\ Match(store[STATIC_CACHE], handlers[h].url) = handlers[h].net
         /\ IsOk(handlers[h].net)

\* C19: a dynamic interception whose fetch resolved returns the network response,
\* whatever the dynamic cache holds; one whose fetch failed returns the entry of
\* the dynamic cache whenever there is one.
C19_NetworkFirst ==
    \A h \in 1..Len(handlers) :
      (Done(h) /\ handlers[h].strategy = "dynamic") =>
        /\ IsResponse(handlers[h].net) => handlers[h].out = handlers[h].net
        /\ (handlers[h].net = Rejected /\ puts = {}
            /\ HasEntry(store[DYNAMIC_CACHE], handlers[h].url))
           => handlers[h].out = Match(store[DYNAMIC_CACHE], handlers[h].url)

\* C20: when the trim of one cache fails, the routine ends without an error escaping
\* and every other cache of more than 100 entries is cut to its last 50.
C20_TrimIsolation ==
    (trim.pc = "failed" /\ trimClean) =>
      \A j \in 1..Len(trim.names) :
        (j # trim.i /\ Len(before.store[trim.names[j]]) > 100)
        => Len(store[trim.names[j]]) = 50

\* C21: a push whose body is not parseable JSON shows no notification and throws
\* nothing out of the listener, and every push whose body is JSON, the later ones
\* included, shows its notification.
C21_MalformedPushCaught ==
    \A i \in 1..Len(pushLog) :
      /\ pushLog[i].data.kind = "text" => ~pushLog[i].shown /\ ~pushLog[i].threw
      /\ pushLog[i].data.kind = "json" => pushLog[i].shown /\ ~pushLog[i].threw

\* C22: no call into the persisted cache throws to its caller, a smartSet() on a
\* storage that rejects writes leaves the stored entries as they were, and a
\* smartGet() on a storage that denies access returns null.
C22_StorageFailuresDegrade ==
    /\ ~lsRaised
    /\ smartPut.fault # "none" => smartPut.after = smartPut.before
    /\ smartGot.fault = "denied" => smartGot.result = Null

\* Every call of preload() made so far has resolved, and so has the batch.
AllResolved ==
    /\ \A c \in 1..Len(callers) : callers[c].pc = "done"
    /\ batch.pc # "waiting"

\* C23: with the probe events and the poll interval delivered, every call of
\* preload() resolves with a boolean (a call stays resolved, and a behaviour holds
\* finitely many calls, so from some point on all of them have resolved), and a
\* call of preloadBatch() resolves with a map that holds a boolean for every one
\* of its sources.
C23_PreloadResolves ==
    /\ <>[]AllResolved
    /\ [](\A c \in 1..Len(callers) : callers[c].result \in BOOLEAN)
    /\ [](batch.pc = "done" =>
             \A i \in 1..Len(batch.sources) :
               batch.results[batch.sources[i]] \in {"true", "false"})

\* A batch of two sources has resolved, one of its calls by polling on the other.
C23_Witness ==
    /\ batch.pc = "done"
    /\ Len(batch.sources) = 2
    /\ \E c \in Members(batch) :
         /\ callers[c].pc = "done"
         /\ ~callers[c].issued
         /\ callers[c].onto \in Members(batch)

\* C24: the phases of a version follow one another: it is installed, with the whole
\* manifest in the static cache, before it is activated; it is activated, with the
\* stale caches gone, before it answers a fetch; and a version whose install failed
\* answers none.
C24_PhasesSequential ==
    /\ [][phase' # phase =>
            <<phase, phase'>> \in {<<"parsed", "installed">>, <<"parsed", "redundant">>,
                                   <<"installed", "activated">>}]_vars
    /\ [](phase \in {"installed", "activated"} =>
            /\ installBad = {}
            /\ \A u \in 1..ManifestSize : HasEntry(store[STATIC_CACHE], u))
    /\ [](handlers # <<>> =>
            /\ phase = "activated"
            /\ installBad = {}
            /\ Range(cacheKeys) \subseteq CurrentCaches)

\* An activated version that found a stale cache answers a fetch.
C24_Witness ==
    /\ phase = "activated"
    /\ OLD_STATIC_CACHE \in Range(before.keys)
    /\ \E h \in 1..Len(handlers) : Done(h)
    /\ \A u \in 1..ManifestSize : HasEntry(store[STATIC_CACHE], u)

\* C25: every manifest entry the static cache held when a trim started is still in
\* the static cache, whatever the trim and the interceptions have done since.
C25_ShellSurvives ==
    trim.pc # "idle" =>
      \A u \in 1..ManifestSize :
        HasEntry(before.store[STATIC_CACHE], u) => HasEntry(store[STATIC_CACHE], u)

\* C26: a smartGet(key) that follows a smartSet(key, v, options) with nothing in
\* between returns v.
C26_ReadYourWrites ==
    (/\ smartPut.key # <<>>
     /\ smartGot.key = smartPut.key
     /\ smartGot.sets = smartSets
     /\ smartGot.online = smartPut.online
     /\ smartGot.before = smartPut.after)
    => smartGot.result = smartPut.data

\* C27: a smartGet(key) that follows a smartSet(key, v, options), with no other
\* smartSet after it, returns v or null, never a value written before that call.
C27_NoStaleResurrection ==
    (/\ smartPut.key # <<>>
     /\ smartGot.key = smartPut.key
     /\ smartGot.sets = smartSets)
    => smartGot.result \in {Null, smartPut.data}

\* C28: an entry of the static or image cache is not overwritten by an
\* interception, and of the interceptions of one request that run at the same time
\* at most one has a fetch in flight and at most one has a cache.put() pending.
C28_WrittenOnce ==
    /\ [][\A n \in {STATIC_CACHE, IMAGE_CACHE}, u \in ReqUrls :
             HasEntry(store[n], u) => Match(store'[n], u) = Match(store[n], u)]_vars
    /\ [](\A u \in ReqUrls :
             /\ Cardinality({h \in 1..Len(handlers) :
                    CacheFirst(h) /\ handlers[h].url = u
                    /\ handlers[h].pc = "fetch"}) <= 1
             /\ Cardinality({p \in puts :
                    p.cache \in {STATIC_CACHE, IMAGE_CACHE} /\ p.url = u}) <= 1)

\* C29: the error recovery re-assigns the source of an image at most three times,
\* and every timeout it sets has a longer delay than the one set before it.
C29_RetriesBounded ==
    /\ Len(reassigned) <= MAX_RETRIES
    /\ \A i \in 1..(Len(reassigned \o timers) - 1) :
         (reassigned \o timers)[i].delay < (reassigned \o timers)[i + 1].delay

\* C30: a sweep deletes the entries with now - timestamp > ttl and leaves every
\* other entry as it is, and what get(key) would return is settled by the calls of
\* set, get and clear and by the clock, whether sweeps ran or not.
C30_SweepInvisible ==
    /\ [][MemCleanup =>
            \A k \in MemKeys :
              memCache'[k] = IF memCache[k].present
                                /\ now - memCache[k].timestamp > memCache[k].ttl
                             THEN NoItem ELSE memCache[k]]_vars
    /\ [](\A k \in MemKeys :
            GetResult(memCache[k], now) =
              IF /\ memWritten[k].item.present
                 /\ ~memWritten[k].missed
                 /\ now - memWritten[k].item.timestamp <= memWritten[k].item.ttl
              THEN memWritten[k].item.data
              ELSE Null)

\* A sweep has deleted an expired entry that no get() had met, and has left an
\* entry that has not expired.
C30_Witness ==
    \E k, l \in MemKeys :
      /\ memWritten[k].item.present /\ ~memWritten[k].missed
      /\ ~memCache[k].present
      /\ memCache[l].present
      /\ now - memCache[l].timestamp <= memCache[l].ttl

====
